---- MODULE Spec2Model ----
(***************************************************************************)
(* Model of the rule-based tool dispatcher of src/tools/tool_registry.py:  *)
(* ToolRegistry (register, needs_tool, select_tool, execute_tool,          *)
(* execute_if_needed, list_tools, get_usage_stats), ToolResult and the     *)
(* usage log.                                                              *)
(*                                                                         *)
(* Python values are encoded as follows.                                   *)
(*   - A str that is searched (task descriptions, keywords, trigger        *)
(*     phrases) is the sequence of its characters.                         *)
(*   - A str that is only compared (tool names, parameter names) is a      *)
(*     TLA+ string.  A formatted message is its format and arguments.      *)
(*   - An Optional value is a set with at most one element: None is {}.    *)
(*   - A dict is a function; `k in d` is k \in DOMAIN d.                   *)
(*   - self.tools, an insertion-ordered dict keyed by tool.name, is the    *)
(*     sequence of its values in iteration order.                          *)
(***************************************************************************)
EXTENDS Integers, Sequences, FiniteSets, TLC

VARIABLES
    tools,            \* self.tools: the descriptors, in dict iteration order
    tool_usage_log,   \* self.tool_usage_log: the usage records
    params_obj,       \* the caller's parameter dict object (passed by reference)
    call,             \* the last call made on the registry, with its arguments
    ret               \* what that call returned, or the fault that escaped it

vars == <<tools, tool_usage_log, params_obj, call, ret>>

\* Longest usage log explored.
MaxLog == 2

-----------------------------------------------------------------------------
(* Python values *)

None == {}
Some(x) == {x}
Val(o) == CHOOSE x \in o : TRUE

\* bool(x) of an Optional[str]: None and "" are falsy.
Truthy(o) == o # None /\ Val(o) # ""

UpperCase == <<"A", "B", "C", "D", "E", "F", "G", "H", "I", "J", "K", "L", "M",
               "N", "O", "P", "Q", "R", "S", "T", "U", "V", "W", "X", "Y", "Z">>
LowerCase == <<"a", "b", "c", "d", "e", "f", "g", "h", "i", "j", "k", "l", "m",
               "n", "o", "p", "q", "r", "s", "t", "u", "v", "w", "x", "y", "z">>

LowerChar(c) ==
    IF \E i \in 1..Len(UpperCase) : UpperCase[i] = c
    THEN LowerCase[CHOOSE i \in 1..Len(UpperCase) : UpperCase[i] = c]
    ELSE c

\* str.lower()
StrLower(s) == [i \in 1..Len(s) |-> LowerChar(s[i])]

\* `sub in s` on strings
Contains(sub, s) ==
    \E i \in 0..(Len(s) - Len(sub)) : SubSeq(s, i + 1, i + Len(sub)) = sub

-----------------------------------------------------------------------------
(* ToolType, Tool, ToolResult *)

ToolType == {"web", "file", "data", "calculation", "communication", "system"}

Tool(name, type, description, handler, keywords, required_params) ==
    [name |-> name, type |-> type, description |-> description,
     handler |-> handler, keywords |-> keywords,
     required_params |-> required_params]

ToolResult_ErrorDefaultsToEmpty(tool_name, success, output, error) ==
    [tool_name |-> tool_name, success |-> success, output |-> output,
     error |-> IF error = None THEN Some([fmt |-> "", args |-> << >>]) ELSE error]
ToolResult(tool_name, success, output, error) ==
    [tool_name |-> tool_name, success |-> success,
     output |-> output, error |-> error]

\* needs_tool's local table of trigger phrases per category.
action_patterns == [
    web |-> <<
        <<"f", "e", "t", "c", "h">>,
        <<"d", "o", "w", "n", "l", "o", "a", "d">>,
        <<"s", "c", "r", "a", "p", "e">>,
        <<"g", "e", "t", " ", "u", "r", "l">>,
        <<"h", "t", "t", "p">>,
        <<"a", "p", "i", " ", "c", "a", "l", "l">>>>,
    file |-> <<
        <<"r", "e", "a", "d", " ", "f", "i", "l", "e">>,
        <<"w", "r", "i", "t", "e", " ", "f", "i", "l", "e">>,
        <<"s", "a", "v", "e", " ", "t", "o">>,
        <<"l", "o", "a", "d", " ", "f", "r", "o", "m">>,
        <<"o", "p", "e", "n", " ", "f", "i", "l", "e">>>>,
    data |-> <<
        <<"p", "a", "r", "s", "e">>,
        <<"t", "r", "a", "n", "s", "f", "o", "r", "m">>,
        <<"f", "i", "l", "t", "e", "r">>,
        <<"a", "g", "g", "r", "e", "g", "a", "t", "e">>,
        <<"s", "o", "r", "t">>>>,
    calculation |-> <<
        <<"c", "a", "l", "c", "u", "l", "a", "t", "e">>,
        <<"c", "o", "m", "p", "u", "t", "e">>,
        <<"s", "u", "m">>,
        <<"a", "v", "e", "r", "a", "g", "e">>,
        <<"c", "o", "u", "n", "t">>>>,
    communication |-> <<
        <<"s", "e", "n", "d", " ", "e", "m", "a", "i", "l">>,
        <<"n", "o", "t", "i", "f", "y">>,
        <<"m", "e", "s", "s", "a", "g", "e">>,
        <<"a", "l", "e", "r", "t">>>>,
    system |-> <<
        <<"e", "x", "e", "c", "u", "t", "e">>,
        <<"r", "u", "n", " ", "c", "o", "m", "m", "a", "n", "d">>,
        <<"s", "h", "e", "l", "l">>,
        <<"p", "r", "o", "c", "e", "s", "s">>>>]

-----------------------------------------------------------------------------
(* Inputs: the descriptors a caller registers, the task descriptions and   *)
(* the parameter dicts it passes, and what a handler can do when called.   *)

\* The descriptors callers register.  Two of them carry the same name; one
\* has the empty string for a name (register does not validate names).
WebFetch ==
    Tool("web_fetch", "web", "Fetch content from a URL", "web_fetch_handler",
         << <<"f", "e", "t", "c", "h">>, <<"u", "r", "l">> >>, <<"url">>)
WebFetchAgain ==
    Tool("web_fetch", "data", "Transform data", "data_transform_handler",
         << >>, <<"url", "filepath">>)
Unnamed ==
    Tool("", "calculation", "Perform calculations", "calculate_handler",
         << <<"M", "a", "t", "h">> >>, << >>)

Catalogue == {WebFetch, WebFetchAgain, Unnamed}

ToolNames == {t.name : t \in Catalogue}

\* The task descriptions callers submit.
FetchMath == <<"F", "e", "t", "c", "h", " ", "m", "a", "t", "h">>
FetchSum == <<"F", "e", "t", "c", "h", " ", "s", "u", "m">>
SortHttpSum == <<"S", "O", "R", "T", " ", "h", "t", "t", "p", " ", "s", "u", "m">>
JustThink == <<"J", "u", "s", "t", " ", "t", "h", "i", "n", "k">>

Descriptions == {FetchMath, FetchSum, SortHttpSum, JustThink}

\* The values the caller puts in its parameter dict under each key (None is
\* a value).  It never supplies "filepath".
ParamValues == [url |-> {None, Some("u")}]
ParamNames == DOMAIN ParamValues

\* What a handler call can do: return a value (possibly None), after
\* possibly changing the dict it was given; raise an Exception with a
\* message; or raise a BaseException that is not an Exception
\* (KeyboardInterrupt, SystemExit, GeneratorExit).
HandlerBehaviours == {
    [kind |-> "return", value |-> Some("out"), clears |-> FALSE],
    [kind |-> "return", value |-> None, clears |-> FALSE],
    [kind |-> "return", value |-> Some("out"), clears |-> TRUE],
    [kind |-> "Exception", message |-> <<"boom">>, clears |-> FALSE],
    [kind |-> "BaseException", clears |-> FALSE] }

-----------------------------------------------------------------------------
(* The registry's dict, self.tools *)

\* The position of key `name` in the dict, 0 when it is not a key.
IndexOf(ts, name) ==
    IF \E i \in 1..Len(ts) : ts[i].name = name
    THEN CHOOSE i \in 1..Len(ts) : ts[i].name = name
    ELSE 0

\* `name in self.tools`
HasTool(ts, name) == IndexOf(ts, name) # 0

\* self.tools.get(name)
DictGet(ts, name) ==
    IF HasTool(ts, name) THEN Some(ts[IndexOf(ts, name)]) ELSE None

\* self.tools[tool.name] = tool: a new key goes last, an existing key keeps
\* its place and gets the new value.
DictSetMoveToEnd(ts, tool) ==
    LET others(t) == t.name # tool.name
    IN  Append(SelectSeq(ts, others), tool)
DictSetKeepFirst(ts, tool) ==
    IF HasTool(ts, tool.name) THEN ts ELSE Append(ts, tool)
DictSet(ts, tool) ==
    IF HasTool(ts, tool.name)
    THEN [ts EXCEPT ![IndexOf(ts, tool.name)] = tool]
    ELSE Append(ts, tool)

Min(S) == CHOOSE x \in S : \A y \in S : x <= y

-----------------------------------------------------------------------------
(* needs_tool and select_tool *)

\* Rule 1's inner loop: some keyword of the tool, lower-cased, is in the
\* lower-cased description.
KeywordMatch(tool, task_lower) ==
    \E k \in 1..Len(tool.keywords) :
        Contains(StrLower(tool.keywords[k]), task_lower)

\* Rule 2's inner loop: the tool's category has a trigger phrase that is in
\* the lower-cased description.
PatternMatch(tool, task_lower) ==
    /\ tool.type \in DOMAIN action_patterns
    /\ \E k \in 1..Len(action_patterns[tool.type]) :
           Contains(action_patterns[tool.type][k], task_lower)

\* The two inner loops, evaluated once for every descriptor and description
\* of the inputs: the descriptions each descriptor matches.
KeywordMatches ==
    [tool \in Catalogue |->
        {d \in Descriptions : KeywordMatch(tool, StrLower(d))}]
PatternMatches ==
    [tool \in Catalogue |->
        {d \in Descriptions : PatternMatch(tool, StrLower(d))}]

\* The tool a `for ... in self.tools.items()` loop returns from: the first
\* one in iteration order among those that match.
FirstOf(hits) == Min(hits)

needs_tool_PatternsFirst(ts, task_description) ==
    LET byKeyword == {i \in 1..Len(ts) : task_description \in KeywordMatches[ts[i]]}
        byPattern == {i \in 1..Len(ts) : task_description \in PatternMatches[ts[i]]}
    IN  IF byPattern # {} THEN <<TRUE, Some(ts[FirstOf(byPattern)].name)>>
        ELSE IF byKeyword # {} THEN <<TRUE, Some(ts[FirstOf(byKeyword)].name)>>
        ELSE <<FALSE, None>>
needs_tool(ts, task_description) ==
    LET byKeyword == {i \in 1..Len(ts) : task_description \in KeywordMatches[ts[i]]}
        byPattern == {i \in 1..Len(ts) : task_description \in PatternMatches[ts[i]]}
    IN  IF byKeyword # {} THEN <<TRUE, Some(ts[FirstOf(byKeyword)].name)>>
        ELSE IF byPattern # {} THEN <<TRUE, Some(ts[FirstOf(byPattern)].name)>>
        ELSE <<FALSE, None>>

select_tool(ts, task_description) ==
    LET r == needs_tool(ts, task_description)
    IN  IF r[1] /\ Truthy(r[2]) THEN DictGet(ts, Val(r[2])) ELSE None

-----------------------------------------------------------------------------
(* execute_tool *)

\* An f-string or str(e): the format and what is put in it.
Message(fmt, args) == [fmt |-> fmt, args |-> args]

\* missing_params = [p for p in tool.required_params if p not in params]
IsMissingOrNull(p, params) == p \notin DOMAIN params \/ params[p] = None
IsMissing(p, params) == p \notin DOMAIN params

missing_params_AllRequired(tool, params) ==
    IF \E k \in DOMAIN tool.required_params : IsMissing(tool.required_params[k], params)
    THEN tool.required_params
    ELSE << >>
missing_params(tool, params) ==
    LET absent(p) == IsMissing(p, params)
    IN  SelectSeq(tool.required_params, absent)

\* The reference to the caller's dict object that a usage record keeps,
\* and the dict it denotes now.
ParamsRef == [ref |-> "params"]
Deref(r, obj) == obj

\* A value of the given type returned to the caller, and a fault that
\* escapes to the caller.
Returned(type, v) == [kind |-> "value", type |-> type, value |-> v]
Raised(exc) == [kind |-> "raised", exc |-> exc]

\* {}
EmptyDict == [k \in {} |-> None]

\* The dict object after the handler ran on it: a handler may clear it.
AfterHandler(params, behaviour) ==
    IF behaviour.clears THEN EmptyDict ELSE params

\* self.tool_usage_log.append(record)
ListAppend_AtFront(log, record) == <<record>> \o log
ListAppend(log, record) == Append(log, record)

\* The usage record appended on the handler's normal return and in the
\* `except Exception` clause.
SuccessRecord(tool_name) ==
    [tool |-> tool_name, params |-> ParamsRef, success |-> TRUE]
FailureRecord(tool_name, message) ==
    [tool |-> tool_name, params |-> ParamsRef, success |-> FALSE,
     error |-> message]

\* execute_tool(tool_name, params) on registry (ts, log), with the handler
\* behaving as `behaviour` if it is called: what the call returns or lets
\* escape, the log and the dict object after it, and the handler called.
execute_tool(ts, log, params, tool_name, behaviour) ==
    IF ~HasTool(ts, tool_name)
    THEN [ret |-> Returned("ToolResult", ToolResult(tool_name, FALSE, None,
                     Some(Message("Tool '{}' not found", <<tool_name>>)))),
          log |-> log, params |-> params, handler |-> None]
    ELSE
    LET tool == ts[IndexOf(ts, tool_name)]
        missing == missing_params(tool, params)
    IN  IF missing # << >>
        THEN [ret |-> Returned("ToolResult", ToolResult(tool_name, FALSE, None,
                         Some(Message("Missing required parameters: {}", missing)))),
              log |-> log, params |-> params, handler |-> None]
        ELSE
        LET after == AfterHandler(params, behaviour)
            called == Some([handler |-> tool.handler, behaviour |-> behaviour])
        IN  CASE behaviour.kind = "return" ->
                   [ret |-> Returned("ToolResult", ToolResult(tool_name, TRUE, behaviour.value, None)),
                    log |-> ListAppend(log, SuccessRecord(tool_name)),
                    params |-> after, handler |-> called]
              [] behaviour.kind = "Exception" ->
                   [ret |-> Returned("ToolResult", ToolResult(tool_name, FALSE, None,
                               Some(Message("{}", behaviour.message)))),
                    log |-> ListAppend(log, FailureRecord(tool_name,
                               Message("{}", behaviour.message))),
                    params |-> after, handler |-> called]
              [] behaviour.kind = "BaseException" ->
                   [ret |-> Raised("BaseException"),
                    log |-> log, params |-> after, handler |-> called]

\* execute_if_needed(task_description, params)
execute_if_needed(ts, log, params, task_description, behaviour) ==
    LET tool == select_tool(ts, task_description)
    IN  IF tool = None
        THEN [ret |-> Returned("Optional[ToolResult]", None), log |-> log,
              params |-> params, handler |-> None]
        ELSE LET r == execute_tool(ts, log, params, Val(tool).name, behaviour)
             IN  [r EXCEPT !.ret = IF r.ret.kind = "value"
                                   THEN Returned("Optional[ToolResult]",
                                                 Some(r.ret.value))
                                   ELSE r.ret]

-----------------------------------------------------------------------------
(* list_tools and get_usage_stats *)

list_tools(ts, tool_type) ==
    IF tool_type = None
    THEN ts
    ELSE LET sameType(t) == t.type = Val(tool_type) IN SelectSeq(ts, sameType)



\* The `for log in self.tool_usage_log` loop that fills by_tool, from
\* record i on.
RECURSIVE ByToolLoop(_, _, _)
ByToolLoop(log, i, by_tool) ==
    IF i > Len(log) THEN by_tool
    ELSE
    LET tool == log[i].tool
        start == IF tool \notin DOMAIN by_tool
                 THEN by_tool @@ (tool :> [total |-> 0, success |-> 0, failure |-> 0])
                 ELSE by_tool
        counted == [start EXCEPT ![tool].total = @ + 1]
        tallied == IF log[i].success
                   THEN [counted EXCEPT ![tool].success = @ + 1]
                   ELSE [counted EXCEPT ![tool].failure = @ + 1]
    IN  ByToolLoop(log, i + 1, tallied)

\* success_count = sum(1 for log in self.tool_usage_log if log['success'])
SuccessCountAll(log) == Len(log)
SuccessCount(log) == Cardinality({i \in 1..Len(log) : log[i].success})

get_usage_stats(log) ==
    LET total == Len(log)
        success_count == SuccessCount(log)
    IN  IF total = 0
        THEN [total |-> 0, success |-> 0, failure |-> 0, by_tool |-> EmptyDict]
        ELSE [total |-> total, success |-> success_count,
              failure |-> total - success_count,
              by_tool |-> ByToolLoop(log, 1, EmptyDict)]

-----------------------------------------------------------------------------
(* The state machine: one action per public method of ToolRegistry, and    *)
(* the caller's own changes to its parameter dict between calls.           *)

\* ToolRegistry.__init__, and a caller holding an empty dict.
Init ==
    /\ tools = << >>
    /\ tool_usage_log = << >>
    /\ params_obj = EmptyDict
    /\ call = [op |-> "__init__"]
    /\ ret = Returned("None", None)

Register(tool) ==
    /\ tools' = DictSet(tools, tool)
    /\ call' = [op |-> "register", tool |-> tool]
    /\ ret' = Returned("ToolRegistry", "self")
    /\ UNCHANGED <<tool_usage_log, params_obj>>

NeedsTool(task_description) ==
    /\ call' = [op |-> "needs_tool", task_description |-> task_description]
    /\ ret' = Returned("tuple", needs_tool(tools, task_description))
    /\ UNCHANGED <<tools, tool_usage_log, params_obj>>

SelectTool(task_description) ==
    /\ call' = [op |-> "select_tool", task_description |-> task_description]
    /\ ret' = Returned("Optional[Tool]", select_tool(tools, task_description))
    /\ UNCHANGED <<tools, tool_usage_log, params_obj>>

ExecuteTool(tool_name, behaviour) ==
    LET r == execute_tool(tools, tool_usage_log, params_obj, tool_name, behaviour)
    IN  /\ Len(r.log) <= MaxLog
        /\ tool_usage_log' = r.log
        /\ params_obj' = r.params
        /\ call' = [op |-> "execute_tool", tool_name |-> tool_name,
                    params |-> params_obj, handler |-> r.handler]
        /\ ret' = r.ret
        /\ UNCHANGED tools

ExecuteIfNeeded(task_description, behaviour) ==
    LET r == execute_if_needed(tools, tool_usage_log, params_obj,
                               task_description, behaviour)
    IN  /\ Len(r.log) <= MaxLog
        /\ tool_usage_log' = r.log
        /\ params_obj' = r.params
        /\ call' = [op |-> "execute_if_needed",
                    task_description |-> task_description,
                    params |-> params_obj, handler |-> r.handler]
        /\ ret' = r.ret
        /\ UNCHANGED tools

ListTools(tool_type) ==
    /\ call' = [op |-> "list_tools", tool_type |-> tool_type]
    /\ ret' = Returned("list", list_tools(tools, tool_type))
    /\ UNCHANGED <<tools, tool_usage_log, params_obj>>

GetUsageStats ==
    /\ call' = [op |-> "get_usage_stats"]
    /\ ret' = Returned("dict", get_usage_stats(tool_usage_log))
    /\ UNCHANGED <<tools, tool_usage_log, params_obj>>

\* The caller does params[key] = value on its dict, outside any call.
CallerSetsParam(key, value) ==
    /\ params_obj' = [k \in DOMAIN params_obj \cup {key} |->
                        IF k = key THEN value ELSE params_obj[k]]
    /\ call' = [op |-> "caller"]
    /\ ret' = Returned("None", None)
    /\ UNCHANGED <<tools, tool_usage_log>>

\* The caller does del params[key].
CallerDeletesParam(key) ==
    /\ key \in DOMAIN params_obj
    /\ params_obj' = [k \in DOMAIN params_obj \ {key} |-> params_obj[k]]
    /\ call' = [op |-> "caller"]
    /\ ret' = Returned("None", None)
    /\ UNCHANGED <<tools, tool_usage_log>>

\* The category filters callers pass to list_tools.
ListFilters == {None, Some("web"), Some("calculation")}

Next ==
    \/ \E tool \in Catalogue : Register(tool)
    \/ \E d \in Descriptions : NeedsTool(d)
    \/ \E d \in Descriptions : SelectTool(d)
    \/ \E n \in ToolNames, b \in HandlerBehaviours : ExecuteTool(n, b)
    \/ \E d \in Descriptions, b \in HandlerBehaviours : ExecuteIfNeeded(d, b)
    \/ \E f \in ListFilters : ListTools(f)
    \/ GetUsageStats
    \/ \E k \in ParamNames : \E v \in ParamValues[k] : CallerSetsParam(k, v)
    \/ \E k \in ParamNames : CallerDeletesParam(k)

Spec == Init /\ [][Next]_vars

-----------------------------------------------------------------------------
(* Properties.  In an action formula the unprimed variables are the        *)
(* registry before the call and call', ret' describe the call just made.   *)

IsExecution(c) == c.op \in {"execute_tool", "execute_if_needed"}

\* C1: the usage log grows by exactly one record in every execute_tool /
\* execute_if_needed call that gets to call the handler, whether the handler
\* returns or raises, and by none in every other call; so the number of
\* records is the number of calls that reached the handler.
C1_OneRecordPerHandlerCall ==
    [][ IF IsExecution(call') /\ call'.handler # None
        THEN Len(tool_usage_log') = Len(tool_usage_log) + 1
        ELSE Len(tool_usage_log') = Len(tool_usage_log) ]_vars

\* C2: execute_tool always returns a ToolResult and execute_if_needed a
\* ToolResult or None; no fault escapes either of them, whatever the handler
\* does.
C2_NoFaultEscapes ==
    IsExecution(call) =>
        /\ ret.kind = "value"
        /\ call.op = "execute_tool" =>
               DOMAIN ret.value = {"tool_name", "success", "output", "error"}
        /\ call.op = "execute_if_needed" =>
               \/ ret.value = None
               \/ DOMAIN Val(ret.value) = {"tool_name", "success", "output", "error"}

\* C3, in the claim's terms: a is a substring of b; the keyword rule and the
\* category rule hold of a descriptor and a description.
C3_IsSubstring(a, b) ==
    \E pre \in 0..Len(b) :
        /\ pre + Len(a) <= Len(b)
        /\ \A j \in 1..Len(a) : b[pre + j] = a[j]

C3_ByKeyword ==
    [t \in Catalogue |->
        {d \in Descriptions :
            \E k \in DOMAIN t.keywords :
                C3_IsSubstring(StrLower(t.keywords[k]), StrLower(d))}]

C3_ByCategory ==
    [t \in Catalogue |->
        {d \in Descriptions :
            \E k \in DOMAIN action_patterns[t.type] :
                C3_IsSubstring(action_patterns[t.type][k], StrLower(d))}]

\* C3: needs_tool answers with the first registered tool, in insertion
\* order, one of whose keywords is in the description (case-insensitively),
\* even when an earlier tool matches by a category phrase; failing that with
\* the first tool whose category has a trigger phrase in the description;
\* failing that with (False, None).
C3_NeedsToolTwoTier ==
    call.op = "needs_tool" =>
        LET d == call.task_description
            kw == {i \in 1..Len(tools) : d \in C3_ByKeyword[tools[i]]}
            cat == {i \in 1..Len(tools) : d \in C3_ByCategory[tools[i]]}
            firstIn(S, i) == i \in S /\ \A j \in 1..(i - 1) : j \notin S
        IN  \/ /\ kw # {}
               /\ \E i \in kw : /\ firstIn(kw, i)
                                /\ ret = Returned("tuple", <<TRUE, Some(tools[i].name)>>)
            \/ /\ kw = {}
               /\ cat # {}
               /\ \E i \in cat : /\ firstIn(cat, i)
                                 /\ ret = Returned("tuple", <<TRUE, Some(tools[i].name)>>)
            \/ /\ kw = {}
               /\ cat = {}
               /\ ret = Returned("tuple", <<FALSE, None>>)

\* C3's case: the first tool matches "Fetch sum" only by its category phrase
\* "sum", the second by its keyword "fetch", and the second is selected.
C3_Witness ==
    /\ call = [op |-> "needs_tool", task_description |-> FetchSum]
    /\ tools = <<Unnamed, WebFetch>>
    /\ FetchSum \notin C3_ByKeyword[Unnamed]
    /\ FetchSum \in C3_ByCategory[Unnamed]
    /\ ret = Returned("tuple", <<TRUE, Some("web_fetch")>>)

Range(seq) == {seq[i] : i \in DOMAIN seq}
NamesOf(ts) == {ts[i].name : i \in DOMAIN ts}
EntriesOf(ts, name) == {i \in DOMAIN ts : ts[i].name = name}

\* C4: the registry holds exactly one descriptor per registered name;
\* register(t) returns the registry, leaves t under t.name, adds no other
\* name and changes no other name's descriptor, and no other call changes
\* the descriptors; list_tools() is as long as there are distinct names.
C4_LastWriteWins ==
    /\ [] /\ \A n \in NamesOf(tools) : Cardinality(EntriesOf(tools, n)) = 1
          /\ call.op = "register" =>
                 /\ ret = Returned("ToolRegistry", "self")
                 /\ \E i \in DOMAIN tools : tools[i] = call.tool
          /\ (call.op = "list_tools" /\ call.tool_type = None) =>
                 Len(ret.value) = Cardinality(NamesOf(tools))
    /\ [][ IF call'.op = "register"
           THEN /\ NamesOf(tools') = NamesOf(tools) \cup {call'.tool.name}
                /\ \A n \in NamesOf(tools) \ {call'.tool.name} :
                       {tools'[i] : i \in EntriesOf(tools', n)}
                           = {tools[i] : i \in EntriesOf(tools, n)}
           ELSE tools' = tools ]_vars

\* C4's case: web_fetch, registered before the unnamed tool, has just been
\* registered again with another descriptor.
C4_Witness ==
    /\ call = [op |-> "register", tool |-> WebFetchAgain]
    /\ tools = <<WebFetchAgain, Unnamed>>

\* C5: execute_tool on an unregistered name returns the failed result
\* "Tool '<name>' not found"; on a registered name with required parameters
\* absent from the mapping it returns a failed result that lists exactly the
\* absent ones; in both cases no handler is called and the descriptors and
\* the usage log stay as they were.
C5_NoHandlerOnLookupOrValidationError ==
    [][ call'.op = "execute_tool" =>
        LET name == call'.tool_name
            untouched == /\ call'.handler = None
                         /\ tools' = tools
                         /\ tool_usage_log' = tool_usage_log
        IN  /\ EntriesOf(tools, name) = {} =>
                /\ ret' = Returned("ToolResult", [tool_name |-> name, success |-> FALSE,
                                    output |-> None,
                                    error |-> Some(Message("Tool '{}' not found",
                                                           <<name>>))])
                /\ untouched
            /\ \A i \in EntriesOf(tools, name) :
                LET absent == Range(tools[i].required_params) \ DOMAIN params_obj
                IN  absent # {} =>
                        /\ ret'.kind = "value"
                        /\ ret'.value.tool_name = name
                        /\ ret'.value.success = FALSE
                        /\ ret'.value.error # None
                        /\ Val(ret'.value.error).fmt = "Missing required parameters: {}"
                        /\ Range(Val(ret'.value.error).args) = absent
                        /\ untouched ]_vars

\* C5's case: web_fetch requires url and filepath, the mapping has url only,
\* and the failure names filepath alone.
C5_Witness ==
    /\ call.op = "execute_tool"
    /\ call.tool_name = "web_fetch"
    /\ DictGet(tools, "web_fetch") = Some(WebFetchAgain)
    /\ DOMAIN call.params = {"url"}
    /\ call.handler = None
    /\ ret.value.error = Some(Message("Missing required parameters: {}", <<"filepath">>))

IsMissingFailure(r) ==
    /\ r.kind = "value"
    /\ r.value.success = FALSE
    /\ r.value.error # None
    /\ Val(r.value.error).fmt = "Missing required parameters: {}"

\* C6, as claimed: execute_tool calls the handler only if every required
\* parameter is in the mapping with a non-null value, and returns the
\* missing-parameter failure when one is absent or null.
C6_NonNullRequired ==
    (call.op = "execute_tool" /\ HasTool(tools, call.tool_name)) =>
        LET required == Range(tools[IndexOf(tools, call.tool_name)].required_params)
            allNonNull == \A p \in required :
                              p \in DOMAIN call.params /\ call.params[p] # None
        IN  /\ call.handler # None => allNonNull
            /\ ~allNonNull => IsMissingFailure(ret)

\* C6, amended: a required parameter is present when it is a key of the
\* mapping, whatever its value, null included: the handler is called exactly
\* when every required name is a key, and the missing-parameter failure is
\* returned exactly when some required name is not a key.
C6_KeyPresenceRequired ==
    (call.op = "execute_tool" /\ HasTool(tools, call.tool_name)) =>
        LET required == Range(tools[IndexOf(tools, call.tool_name)].required_params)
            allKeys == required \subseteq DOMAIN call.params
        IN  /\ call.handler # None <=> allKeys
            /\ IsMissingFailure(ret) <=> ~allKeys

\* C6's case: the handler of web_fetch, which requires url, is called with
\* url mapped to None.
C6_Witness ==
    /\ call.op = "execute_tool"
    /\ call.tool_name = "web_fetch"
    /\ DictGet(tools, "web_fetch") = Some(WebFetch)
    /\ "url" \in Range(WebFetch.required_params)
    /\ call.params = [url |-> None]
    /\ call.handler # None
    /\ ret.kind = "value"
    /\ ret.value.success

RECURSIVE SumOver(_, _)
SumOver(f, S) ==
    IF S = {} THEN 0
    ELSE LET x == CHOOSE y \in S : TRUE IN f[x] + SumOver(f, S \ {x})

\* C7: what get_usage_stats returns has total equal to the length of the
\* usage log, total = success + failure overall and in every per-tool entry,
\* per-tool totals that sum to the total and per-tool successes that sum to
\* the overall success; on an empty log it is all zeros with no per-tool
\* entry.
C7_StatsAddUp ==
    call.op = "get_usage_stats" =>
        /\ ret.kind = "value"
        /\ LET stats == ret.value
               by_tool == stats.by_tool
               totals == [t \in DOMAIN by_tool |-> by_tool[t].total]
               successes == [t \in DOMAIN by_tool |-> by_tool[t].success]
           IN  /\ stats.total = Len(tool_usage_log)
               /\ stats.total = stats.success + stats.failure
               /\ \A t \in DOMAIN by_tool :
                      by_tool[t].total = by_tool[t].success + by_tool[t].failure
               /\ SumOver(totals, DOMAIN by_tool) = stats.total
               /\ SumOver(successes, DOMAIN by_tool) = stats.success
               /\ tool_usage_log = << >> =>
                      stats = [total |-> 0, success |-> 0, failure |-> 0,
                               by_tool |-> EmptyDict]

\* C7's case: statistics over a log with a success of one tool and a failure
\* of another.
C7_Witness ==
    /\ call.op = "get_usage_stats"
    /\ Len(tool_usage_log) = 2
    /\ tool_usage_log[1].success
    /\ ~tool_usage_log[2].success
    /\ tool_usage_log[1].tool # tool_usage_log[2].tool
    /\ ret.value.success = 1
    /\ ret.value.failure = 1

\* C8: execute_if_needed returns None exactly when needs_tool on the same
\* description reports no tool, and then appends no record and calls no
\* handler; when needs_tool reports (True, name) it returns what
\* execute_tool(name, params) returns.
C8_ExecuteIfNeededFollowsNeedsTool ==
    [][ call'.op = "execute_if_needed" =>
        LET needed == needs_tool(tools, call'.task_description)
        IN  /\ (ret' = Returned("Optional[ToolResult]", None)) <=> ~needed[1]
            /\ ret' = Returned("Optional[ToolResult]", None) =>
                   /\ tool_usage_log' = tool_usage_log
                   /\ call'.handler = None
            /\ needed[1] =>
                   \E b \in HandlerBehaviours :
                       LET r == execute_tool(tools, tool_usage_log, params_obj,
                                             Val(needed[2]), b)
                       IN  /\ tool_usage_log' = r.log
                           /\ \/ r.ret.kind = "value"
                                 /\ ret' = Returned("Optional[ToolResult]",
                                                    Some(r.ret.value))
                              \/ r.ret.kind = "raised" /\ ret' = r.ret ]_vars

ResultOf(c, r) == IF c.op = "execute_tool" THEN r.value ELSE Val(r.value)
HasResult(c, r) ==
    /\ IsExecution(c)
    /\ r.kind = "value"
    /\ c.op = "execute_if_needed" => r.value # None

\* C9, as claimed: in every ToolResult returned, output is present exactly
\* when success is true and error exactly when it is false.
C9_OutputIffSuccess ==
    HasResult(call, ret) =>
        LET result == ResultOf(call, ret)
        IN  /\ result.output # None <=> result.success
            /\ result.error # None <=> ~result.success

\* C9, amended: in every ToolResult returned, error is present exactly when
\* success is false, output is absent when success is false, and when
\* success is true output is what the handler returned, which is absent
\* when the handler returned None.
C9_ErrorIffFailure ==
    HasResult(call, ret) =>
        LET result == ResultOf(call, ret)
        IN  /\ result.error # None <=> ~result.success
            /\ ~result.success => result.output = None
            /\ result.success =>
                   /\ call.handler # None
                   /\ Val(call.handler).behaviour.kind = "return"
                   /\ result.output = Val(call.handler).behaviour.value

\* C9's case: the handler returned None, and the successful result has
\* neither output nor error.
C9_Witness ==
    /\ call.op = "execute_tool"
    /\ ret.kind = "value"
    /\ call.handler # None
    /\ Val(call.handler).behaviour = [kind |-> "return", value |-> None, clears |-> FALSE]
    /\ ret.value.success
    /\ ret.value.output = None
    /\ ret.value.error = None

\* The parameter mapping a usage record shows when it is read.
RecordParams(record, obj) == Deref(record.params, obj)

\* C10: the params of a usage record are the mapping as it was when
\* execute_tool was called: the record is appended with the call-time
\* mapping, and no later step changes the params of a record in the log.
C10_ParamsAreSnapshot ==
    [][ /\ Len(tool_usage_log') = Len(tool_usage_log) + 1 =>
               RecordParams(tool_usage_log'[Len(tool_usage_log')], params_obj')
                   = params_obj
        /\ \A i \in 1..Len(tool_usage_log) :
               RecordParams(tool_usage_log'[i], params_obj')
                   = RecordParams(tool_usage_log[i], params_obj) ]_vars

\* C11: the usage log only grows at its end: after every step the log before
\* the step is a prefix of the log after it, with the tool, success and error
\* of every record as they were; a step appends at most one record, and only
\* a call whose handler has just completed appends one, for the tool it ran.
C11_LogAppendOnly ==
    [][ /\ Len(tool_usage_log') >= Len(tool_usage_log)
        /\ Len(tool_usage_log') <= Len(tool_usage_log) + 1
        /\ \A i \in 1..Len(tool_usage_log) :
               /\ DOMAIN tool_usage_log'[i] = DOMAIN tool_usage_log[i]
               /\ tool_usage_log'[i].tool = tool_usage_log[i].tool
               /\ tool_usage_log'[i].success = tool_usage_log[i].success
               /\ ~tool_usage_log[i].success =>
                      tool_usage_log'[i].error = tool_usage_log[i].error
        /\ Len(tool_usage_log') = Len(tool_usage_log) + 1 =>
               /\ IsExecution(call')
               /\ call'.handler # None
               /\ ret'.kind = "value"
               /\ tool_usage_log'[Len(tool_usage_log')].tool
                      = ResultOf(call', ret').tool_name
               /\ tool_usage_log'[Len(tool_usage_log')].success
                      = ResultOf(call', ret').success ]_vars

\* C11's case: a second, different record has just been appended behind the
\* first one by a call whose handler raised.
C11_Witness ==
    /\ call.op = "execute_tool"
    /\ call.handler # None
    /\ ret.kind = "value"
    /\ Len(tool_usage_log) = 2
    /\ tool_usage_log[1].success
    /\ ~tool_usage_log[2].success
    /\ tool_usage_log[2].tool = call.tool_name
    /\ tool_usage_log[1].tool # tool_usage_log[2].tool

IsQuery(c) ==
    c.op \in {"needs_tool", "select_tool", "list_tools", "get_usage_stats"}

\* C12: needs_tool, select_tool, list_tools and get_usage_stats leave the
\* descriptors, their order and the usage log as they were; the same call
\* made again on the unchanged registry returns the same result; and
\* select_tool returns the descriptor registered under the name needs_tool
\* reports for the description, or None when needs_tool reports no tool.
C12_QueriesArePure ==
    [][ IsQuery(call') =>
        /\ tools' = tools
        /\ tool_usage_log' = tool_usage_log
        /\ call' = call => ret' = ret
        /\ call'.op = "select_tool" =>
               LET needed == needs_tool(tools, call'.task_description)
               IN  ret' = Returned("Optional[Tool]",
                              IF needed[1]
                              THEN {tools[i] : i \in EntriesOf(tools, Val(needed[2]))}
                              ELSE None) ]_vars

\* The names of the registry in iteration order.
NameOrder(ts) == [i \in 1..Len(ts) |-> ts[i].name]

\* C13: registering an already registered name leaves the order of the
\* names as it was and registering a new name puts it last, so the order is
\* that of the first registration of each name; no other call changes the
\* order; list_tools returns the descriptors, all or those of the given
\* category, in that order; and the tool needs_tool selects is the first in
\* that order among those that match in the deciding tier.
C13_ReRegistrationKeepsPosition ==
    /\ [][ IF call'.op = "register"
           THEN NameOrder(tools') =
                    IF call'.tool.name \in NamesOf(tools)
                    THEN NameOrder(tools)
                    ELSE Append(NameOrder(tools), call'.tool.name)
           ELSE NameOrder(tools') = NameOrder(tools) ]_vars
    /\ [] /\ call.op = "list_tools" =>
                 LET keep == {i \in 1..Len(tools) :
                                 \/ call.tool_type = None
                                 \/ tools[i].type = Val(call.tool_type)}
                     nth(k) == CHOOSE i \in keep :
                                   Cardinality({j \in keep : j <= i}) = k
                 IN  /\ Len(ret.value) = Cardinality(keep)
                     /\ \A k \in 1..Len(ret.value) : ret.value[k] = tools[nth(k)]
          /\ (call.op = "needs_tool" /\ ret.value[1]) =>
                 LET d == call.task_description
                     kw == {i \in 1..Len(tools) : d \in C3_ByKeyword[tools[i]]}
                     cat == {i \in 1..Len(tools) : d \in C3_ByCategory[tools[i]]}
                     tier == IF kw # {} THEN kw ELSE cat
                 IN  \E i \in tier :
                         /\ tools[i].name = Val(ret.value[2])
                         /\ \A j \in tier : i <= j

\* C13's case: web_fetch, registered before the unnamed tool, has just been
\* registered again and is still first.
C13_Witness ==
    /\ call = [op |-> "register", tool |-> WebFetch]
    /\ NameOrder(tools) = <<"web_fetch", "">>
    /\ tools[1] = WebFetch

====
